---- MODULE Spec2Model ----
(***************************************************************************)
(* A model of net.py: the retrying request helper make_request, the        *)
(* per-account workflow process_user and the thread pool of main.          *)
(*                                                                         *)
(* Python values are tagged records (t is the Python type); JSON documents *)
(* are a second family of tagged records and json_loads converts one into  *)
(* the other, so that what a caller can and cannot tell apart is decided   *)
(* by the conversion and not assumed.                                      *)
(***************************************************************************)
EXTENDS Integers, Sequences, FiniteSets, TLC

VARIABLES
    \* ---- one call of make_request (net.py 25-59) ----
    r_pc,          \* "idle" | "loop" | "after" | "returned"
    r_retries,     \* the retries argument
    r_attempt,     \* the loop variable attempt
    r_trace,       \* the result of every HTTP request issued, in order
    r_nsleep,      \* number of time.sleep calls made at line 56
    r_sleep_time,  \* the last sleep_time, in units of 2^-MantBits seconds
    r_sleep_after, \* the attempt the last sleep followed, -1 when none
    r_result,      \* the returned Python value
    \* ---- main, the pool and the workflows (net.py 61-158) ----
    m_pc,          \* "fetch" | "submit" | "join" | "returned" | "raised"
    users,         \* the value make_request returned for the account list
    max_workers,   \* min(4, len(users)), 0 before the pool exists
    nthreads,      \* worker threads started so far
    submitted,     \* number of entries of users already submitted
    queue,         \* the executor's work queue: indices into users, FIFO
    worker,        \* pool thread 1..max_workers -> index of the entry it runs, 0 when idle
    u_pc,          \* entry index -> position of its process_user call
    u_claims,      \* entry index -> enabled_claims still to be looped over
    u_reqs,        \* entry index -> the make_request calls issued, in order
    u_runs,        \* entry index -> number of times process_user was started on it
    u_log          \* entry index -> the errors and warnings process_user has logged

r_vars == <<r_pc, r_retries, r_attempt, r_trace, r_nsleep, r_sleep_time,
            r_sleep_after, r_result>>
m_vars == <<m_pc, users, max_workers, nthreads, submitted, queue, worker,
            u_pc, u_claims, u_reqs, u_runs, u_log>>
vars == <<r_vars, m_vars>>

(***************************************************************************)
(* Bounds of the model.                                                    *)
(***************************************************************************)
MaxRetries == 3     \* largest retries argument explored
MantBits == 4       \* significand bits of the model's floats (CPython: 53)
MaxUsers == 5       \* longest account list explored by the pool specification
MaxItems == 3       \* longest claim list explored

(***************************************************************************)
(* Python values.                                                          *)
(***************************************************************************)
PyUnset == [t |-> "unset"]          \* no value yet (not a Python value)
PyNone == [t |-> "none"]
PyStr(s) == [t |-> "str", s |-> s]
PyInt(n) == [t |-> "int", n |-> n]
PyBool(b) == [t |-> "bool", b |-> b]
PyList(items) == [t |-> "list", items |-> items]
PyDict(m) == [t |-> "dict", m |-> m]
PyTrue == PyBool(TRUE)

\* isinstance(v, dict) / isinstance(v, list)
IsDict(v) == v.t = "dict"
IsList(v) == v.t = "list"
\* k in d, for a dict d
HasKey(d, k) == k \in DOMAIN d.m
\* bool(v)
Truthy(v) ==
    CASE v.t = "none" -> FALSE
      [] v.t = "str"  -> v.s # ""
      [] v.t = "int"  -> v.n # 0
      [] v.t = "bool" -> v.b
      [] v.t = "list" -> Len(v.items) > 0
      [] v.t = "dict" -> DOMAIN v.m # {}

(***************************************************************************)
(* JSON documents and response bodies.  A body is either a text that is    *)
(* not JSON or the text of a JSON document.                                *)
(***************************************************************************)
JNull == [t |-> "null"]
JStr(s) == [t |-> "string", s |-> s]
JNum(n) == [t |-> "number", n |-> n]
JBool(b) == [t |-> "boolean", b |-> b]
JArr(items) == [t |-> "array", items |-> items]
JObj(m) == [t |-> "object", m |-> m]

NotJson(text) == [valid |-> FALSE, text |-> text]
Doc(j) == [valid |-> TRUE, doc |-> j]

\* json.loads: the Python value of a JSON document
RECURSIVE json_loads(_)
json_loads(j) ==
    CASE j.t = "null"    -> PyNone
      [] j.t = "string"  -> PyStr(j.s)
      [] j.t = "number"  -> PyInt(j.n)
      [] j.t = "boolean" -> PyBool(j.b)
      [] j.t = "array"   -> PyList([k \in 1..Len(j.items) |-> json_loads(j.items[k])])
      [] j.t = "object"  -> PyDict([k \in DOMAIN j.m |-> json_loads(j.m[k])])

(***************************************************************************)
(* make_request, lines 25-59.                                              *)
(***************************************************************************)
\* line 39: 200 <= response.status_code < 300
IsSuccessStatus(status) == 200 <= status /\ status < 300

\* lines 40-44: what a 2xx response makes make_request do: return
\* response.json(), or response.text when decoding raises JSONDecodeError.
\* [ret |-> TRUE, val |-> v] is "return v"; [ret |-> FALSE] falls through to
\* line 53.
SuccessOutcomeRetryOnBadJson(body) ==
    IF body.valid THEN [ret |-> TRUE, val |-> json_loads(body.doc)]
    ELSE [ret |-> FALSE]
SuccessOutcome(body) ==
    IF body.valid THEN [ret |-> TRUE, val |-> json_loads(body.doc)]
    ELSE [ret |-> TRUE, val |-> PyStr(body.text)]

\* lines 28-51: one pass of the try block on one HTTP result.
\* resp.exc: requests.request raised RequestException (line 50).
AttemptOutcomeGiveUpOn4xx(resp) ==
    IF resp.exc THEN [ret |-> FALSE]
    ELSE IF IsSuccessStatus(resp.status) THEN SuccessOutcome(resp.body)
    ELSE IF 400 <= resp.status /\ resp.status < 500 THEN [ret |-> TRUE, val |-> PyNone]
    ELSE [ret |-> FALSE]
AttemptOutcome(resp) ==
    IF resp.exc THEN [ret |-> FALSE]
    ELSE IF IsSuccessStatus(resp.status) THEN SuccessOutcome(resp.body)
    ELSE [ret |-> FALSE]

\* line 53: if attempt < retries - 1
ShouldSleepAlways(attempt, retries) == attempt < retries
ShouldSleep(attempt, retries) == attempt < retries - 1

\* Floats with a MantBits-bit significand; a value v stands for v / 2^MantBits.
FloatUnit == 2 ^ MantBits
\* random.random(): k / 2^MantBits for 0 <= k < 2^MantBits
RandomValues == 0 .. (FloatUnit - 1)
\* x rounded to a multiple of ulp, ties to even (IEEE 754 default rounding)
RoundHalfEven(x, ulp) ==
    LET q == x \div ulp
        r == x % ulp
    IN  IF 2 * r < ulp THEN q * ulp
        ELSE IF 2 * r > ulp THEN (q + 1) * ulp
        ELSE IF q % 2 = 0 THEN q * ulp ELSE (q + 1) * ulp
\* line 54: 2 ** attempt + random.uniform(0, 1), where uniform(0, 1) is
\* 0 + (1 - 0) * random() = rnd exactly and the sum, which lies in
\* [2^attempt, 2^(attempt+1)), is rounded to that binade's spacing 2^(attempt+1-MantBits).
BackoffDelay(attempt, rnd) ==
    RoundHalfEven((2 ^ attempt) * FloatUnit + rnd, 2 ^ (attempt + 1))

\* Inputs of the make_request specification.
HttpStatuses == {199, 200, 299, 300, 404, 500}
ReqBodies ==
    { NotJson(""), NotJson("<html>"), Doc(JNull), Doc(JStr("ok")),
      Doc(JObj([data |-> JNull])), Doc(JArr(<< >>)) }
\* A failing status carries no body the code reads (line 48 logs it at debug level).
HttpResults ==
    { [exc |-> TRUE] }
    \cup { [exc |-> FALSE, status |-> s, body |-> NotJson("")] :
              s \in {s \in HttpStatuses : ~IsSuccessStatus(s)} }
    \cup { [exc |-> FALSE, status |-> s, body |-> b] :
              s \in {s \in HttpStatuses : IsSuccessStatus(s)}, b \in ReqBodies }

\* lines 27-51: the loop takes another iteration and issues one HTTP request
Request(resp) ==
    /\ r_pc = "loop"
    /\ r_attempt < r_retries
    /\ r_trace' = Append(r_trace, resp)
    /\ LET o == AttemptOutcome(resp)
       IN  IF o.ret
           THEN /\ r_result' = o.val
                /\ r_pc' = "returned"
           ELSE /\ r_pc' = "after"
                /\ UNCHANGED r_result
    /\ UNCHANGED <<r_retries, r_attempt, r_nsleep, r_sleep_time, r_sleep_after, m_vars>>

\* lines 53-56: the attempt failed and more remain: sleep, then iterate
Backoff(rnd) ==
    /\ r_pc = "after"
    /\ ShouldSleep(r_attempt, r_retries)
    /\ r_sleep_time' = BackoffDelay(r_attempt, rnd)
    /\ r_sleep_after' = r_attempt
    /\ r_nsleep' = r_nsleep + 1
    /\ r_attempt' = r_attempt + 1
    /\ r_pc' = "loop"
    /\ UNCHANGED <<r_retries, r_trace, r_result, m_vars>>

\* line 53 false: the last attempt failed, no sleep
NoBackoff ==
    /\ r_pc = "after"
    /\ ~ShouldSleep(r_attempt, r_retries)
    /\ r_attempt' = r_attempt + 1
    /\ r_pc' = "loop"
    /\ UNCHANGED <<r_retries, r_trace, r_nsleep, r_sleep_time, r_sleep_after, r_result,
                   m_vars>>

\* lines 58-59: range(retries) is exhausted: return None
Exhausted ==
    /\ r_pc = "loop"
    /\ r_attempt >= r_retries
    /\ r_result' = PyNone
    /\ r_pc' = "returned"
    /\ UNCHANGED <<r_retries, r_attempt, r_trace, r_nsleep, r_sleep_time, r_sleep_after,
                   m_vars>>

(***************************************************************************)
(* What a call of make_request can return, given the bodies the server may *)
(* send with a 2xx status: None after the last failed attempt, else what   *)
(* lines 40-44 return.  ReturnIsPossible checks it against the loop above. *)
(***************************************************************************)
MakeRequestResults(bodies) ==
    {PyNone} \cup { SuccessOutcome(b).val : b \in {b \in bodies : SuccessOutcome(b).ret} }

(***************************************************************************)
(* process_user, lines 61-142.                                             *)
(***************************************************************************)
\* line 63
required_fields == {"username", "phone", "userid", "access"}

\* line 64: required_fields.issubset(user.keys()).  "raise": user has no
\* keys() (AttributeError); "return": line 66; "ok": line 68 is reached.
ValidateUserIgnoresUsername(user) ==
    IF ~IsDict(user) THEN "raise"
    ELSE IF (required_fields \ {"username"}) \subseteq DOMAIN user.m THEN "ok"
    ELSE "return"
ValidateUser(user) ==
    IF ~IsDict(user) THEN "raise"
    ELSE IF required_fields \subseteq DOMAIN user.m THEN "ok"
    ELSE "return"

\* (base_headersOfFirstAccount: headers built once, from the first account,
\* and used for every account)
base_headersOfFirstAccount(user) ==
    [Authorization |-> <<"Bearer", PyStr(<<"access", 1>>)>>]
\* lines 72-78: base_headers; only Authorization depends on the account
base_headers(user) == [Authorization |-> <<"Bearer", user.m.access>>]
NoHeaders == [Authorization |-> <<"absent">>]

\* lines 81-86, 91-96, 122-127: the three store.atom.com.mm URLs
StoreUrl(endpoint, user) ==
    [endpoint |-> endpoint, msisdn |-> user.m.phone, userid |-> user.m.userid]
\* line 137
RefreshUrl(user) ==
    [endpoint |-> "refresh", msisdn |-> user.m.phone, userid |-> PyNone]

\* line 25: retries=3, the value every caller in the file leaves in place
DefaultRetries == 3

\* One call of make_request as process_user makes it, with what it returned.
Call(method, url, headers, data, out) ==
    [method |-> method, url |-> url, headers |-> headers, data |-> data,
     retries |-> DefaultRetries, out |-> out]

\* 'attribute' in s, for a str s
StringsContainingAttribute == {"attribute", "no attribute here"}
\* 'attribute' not in d raises TypeError unless d is a dict, a str or a list
SupportsIn(d) == d.t \in {"dict", "str", "list"}
\* 'attribute' in d, for d a dict (key), a str (substring) or a list (element)
ContainsAttribute(d) ==
    CASE d.t = "dict" -> HasKey(d, "attribute")
      [] d.t = "str"  -> d.s \in StringsContainingAttribute
      [] d.t = "list" -> \E k \in 1..Len(d.items) : d.items[k] = PyStr("attribute")

\* lines 100-107: the shape check of the claim list.
\* "return": lines 102 or 107; "raise": TypeError at line 100 or 104;
\* "ok": line 110 is reached.
ClaimDataCheckNoListTest(claim_data) ==
    IF ~IsDict(claim_data) THEN "return"
    ELSE IF ~HasKey(claim_data, "data") THEN "return"
    ELSE LET d == claim_data.m.data
         IN  IF ~SupportsIn(d) THEN "raise"
             ELSE IF ~ContainsAttribute(d) THEN "return"
             ELSE IF ~IsDict(d) THEN "raise"
             ELSE IF d.m.attribute.t \notin {"list", "dict", "str"} THEN "raise"
             ELSE "ok"
ClaimDataCheck(claim_data) ==
    IF ~IsDict(claim_data) THEN "return"
    ELSE IF ~HasKey(claim_data, "data") THEN "return"
    ELSE LET d == claim_data.m.data
         IN  IF ~SupportsIn(d) THEN "raise"
             ELSE IF ~ContainsAttribute(d) THEN "return"
             ELSE IF ~IsDict(d) THEN "raise"
             ELSE IF ~IsList(d.m.attribute) THEN "return"
             ELSE "ok"

\* line 110: isinstance(attr, dict) and attr.get('enable') is True
IsEnabled(attr) ==
    IsDict(attr) /\ HasKey(attr, "enable") /\ attr.m.enable = PyTrue

\* line 110: the list comprehension, order kept
RECURSIVE Filter(_)
Filter(items) ==
    IF items = << >> THEN << >>
    ELSE IF IsEnabled(Head(items)) THEN <<Head(items)>> \o Filter(Tail(items))
    ELSE Filter(Tail(items))
\* (enabled_claimsReversed: the comprehension with the order turned round)
RECURSIVE Reverse(_)
Reverse(q) == IF q = << >> THEN << >> ELSE Append(Reverse(Tail(q)), Head(q))
enabled_claimsReversed(attributes) ==
    IF IsList(attributes) THEN Reverse(Filter(attributes.items)) ELSE << >>
\* (attributes is a list here.  Iterating a dict or a str instead yields
\* str elements, none of which passes the filter.)
enabled_claims(attributes) ==
    IF IsList(attributes) THEN Filter(attributes.items) ELSE << >>

\* line 114: 'id' not in claim or 'campaign_name' not in claim
IsSkipped(claim) == ~HasKey(claim, "id") \/ ~HasKey(claim, "campaign_name")

\* lines 130-131: reading the claim response raises AttributeError when
\* .get is called on a value that is not a dict: response['data'] present
\* and not a dict, or response['data']['attribute'] present and not a dict.
ClaimResponseRaises(response) ==
    /\ Truthy(response) /\ IsDict(response)
    /\ HasKey(response, "data")
    /\ \/ ~IsDict(response.m.data)
       \/ /\ HasKey(response.m.data, "attribute")
          /\ ~IsDict(response.m.data.m.attribute)

(***************************************************************************)
(* main and the ThreadPoolExecutor, lines 144-158.                         *)
(***************************************************************************)
\* line 156: the 4 of min(4, len(users))
ConcurrencyLimit == 4

Min(a, b) == IF a < b THEN a ELSE b

\* line 156: max_workers = min(4, len(users))
PoolSizeUnbounded(userlist) == Len(userlist.items)
PoolSize(userlist) == Min(ConcurrencyLimit, Len(userlist.items))

\* the indices of the fetched list's entries
Entries == IF IsList(users) THEN 1..Len(users.items) ELSE {}

\* (FetchWithoutListCheck: main without lines 151-153, where len(users) at
\* line 156 raises TypeError for a value that has no length.)
FetchWithoutListCheck(outs) ==
    /\ m_pc = "fetch"
    /\ \E out \in outs :
       /\ users' = out
       /\ IF ~IsList(out)
          THEN /\ m_pc' = "raised"
               /\ UNCHANGED <<max_workers, worker, u_pc, u_claims, u_reqs, u_runs,
                              u_log>>
          ELSE /\ max_workers' = PoolSize(out)
               /\ worker' = [w \in 1..PoolSize(out) |-> 0]
               /\ m_pc' = IF PoolSize(out) <= 0 THEN "raised" ELSE "submit"
               /\ u_pc' = [i \in 1..Len(out.items) |-> "pending"]
               /\ u_claims' = [i \in 1..Len(out.items) |-> << >>]
               /\ u_reqs' = [i \in 1..Len(out.items) |-> << >>]
               /\ u_runs' = [i \in 1..Len(out.items) |-> 0]
               /\ u_log' = [i \in 1..Len(out.items) |-> << >>]
    /\ UNCHANGED <<nthreads, submitted, queue, r_vars>>

\* lines 149-157: fetch the account list; return when it is no list (line
\* 153); else size the pool.  ThreadPoolExecutor raises ValueError for
\* max_workers <= 0, which leaves main and is caught at line 165.
Fetch(outs) ==
    /\ m_pc = "fetch"
    /\ \E out \in outs :
       /\ users' = out
       /\ IF ~IsList(out)
          THEN /\ m_pc' = "returned"
               /\ UNCHANGED <<max_workers, worker, u_pc, u_claims, u_reqs, u_runs,
                              u_log>>
          ELSE /\ max_workers' = PoolSize(out)
               /\ worker' = [w \in 1..PoolSize(out) |-> 0]
               /\ m_pc' = IF PoolSize(out) <= 0 THEN "raised" ELSE "submit"
               /\ u_pc' = [i \in 1..Len(out.items) |-> "pending"]
               /\ u_claims' = [i \in 1..Len(out.items) |-> << >>]
               /\ u_reqs' = [i \in 1..Len(out.items) |-> << >>]
               /\ u_runs' = [i \in 1..Len(out.items) |-> 0]
               /\ u_log' = [i \in 1..Len(out.items) |-> << >>]
    /\ UNCHANGED <<nthreads, submitted, queue, r_vars>>

\* line 158, executor.map: it submits every entry, in order, before it
\* returns.  One submit puts the entry on the work queue and may start a
\* thread while fewer than max_workers exist; the first submit always does.
\* (Whether a later one does depends on the executor's idle-worker count,
\* left open here.)
Submit(spawn) ==
    /\ m_pc = "submit"
    /\ submitted < Len(users.items)
    /\ spawn => nthreads < max_workers
    /\ ~spawn => nthreads >= 1
    /\ nthreads' = IF spawn THEN nthreads + 1 ELSE nthreads
    /\ submitted' = submitted + 1
    /\ queue' = Append(queue, submitted + 1)
    /\ u_pc' = [u_pc EXCEPT ![submitted + 1] = "queued"]
    /\ m_pc' = IF submitted + 1 = Len(users.items) THEN "join" ELSE "submit"
    /\ UNCHANGED <<users, max_workers, worker, u_claims, u_reqs, u_runs, u_log,
                   r_vars>>

\* line 157, leaving the with block: shutdown(wait=True) returns once the
\* queue is drained and every worker thread has finished its entry.
Join ==
    /\ m_pc = "join"
    /\ queue = << >>
    /\ \A w \in DOMAIN worker : worker[w] = 0
    /\ m_pc' = "returned"
    /\ UNCHANGED <<users, max_workers, nthreads, submitted, queue, worker,
                   u_pc, u_claims, u_reqs, u_runs, u_log, r_vars>>

\* work_queue.get(): the queue without the entry handed to the caller
QueueAfterGetKeepsEntry(q) == q
QueueAfterGet(q) == Tail(q)

\* a started, idle worker thread takes the oldest queued entry and calls
\* process_user on it.  The idle threads all wait in work_queue.get() and
\* nothing in the program reads which of them gets the entry, so the idle
\* thread of lowest number stands for whichever one does.
Take(w) ==
    /\ w <= nthreads
    /\ worker[w] = 0
    /\ \A v \in 1..(w - 1) : worker[v] # 0
    /\ queue # << >>
    /\ LET i == Head(queue)
       IN  /\ worker' = [worker EXCEPT ![w] = i]
           /\ u_pc' = [u_pc EXCEPT ![i] = "validate"]
           /\ u_runs' = [u_runs EXCEPT ![i] = @ + 1]
    /\ queue' = QueueAfterGet(queue)
    /\ UNCHANGED <<m_pc, users, max_workers, nthreads, submitted, u_claims,
                   u_reqs, u_log, r_vars>>

\* the log after a logger.error or logger.warning call that is made when
\* cond holds (logger.info and logger.debug lines are left out)
Logged(log, cond, level, msg) ==
    IF cond THEN Append(log, [level |-> level, msg |-> msg]) ELSE log

\* process_user(users[i]) is being executed by a worker thread
Running(i) == \E w \in DOMAIN worker : worker[w] = i

\* process_user for entry i ends, by return ("returned") or by an exception
\* ("raised"), which the executor stores in the entry's future: the worker
\* thread is free again either way.
FinishKillsThread(i, how) ==
    /\ u_pc' = [u_pc EXCEPT ![i] = how]
    /\ u_claims' = [u_claims EXCEPT ![i] = << >>]
    /\ worker' = [w \in DOMAIN worker |->
                    IF worker[w] = i /\ how = "returned" THEN 0 ELSE worker[w]]
Finish(i, how) ==
    /\ u_pc' = [u_pc EXCEPT ![i] = how]
    /\ u_claims' = [u_claims EXCEPT ![i] = << >>]
    /\ worker' = [w \in DOMAIN worker |-> IF worker[w] = i THEN 0 ELSE worker[w]]

\* lines 63-66; the return is preceded by the logger.error of line 65, the
\* AttributeError of line 64 by nothing
Validate(i) ==
    /\ Running(i) /\ u_pc[i] = "validate"
    /\ LET v == ValidateUser(users.items[i])
       IN  /\ IF v = "ok"
              THEN /\ u_pc' = [u_pc EXCEPT ![i] = "dashboard"]
                   /\ UNCHANGED <<worker, u_claims>>
              ELSE Finish(i, IF v = "raise" THEN "raised" ELSE "returned")
           /\ u_log' = [u_log EXCEPT ![i] =
                            Logged(@, v = "return", "error", "Invalid user data")]
    /\ UNCHANGED <<m_pc, users, max_workers, nthreads, submitted, queue,
                   u_reqs, u_runs, r_vars>>

\* (DashboardStopsWhenFailed: a dashboard step that returns from
\* process_user when its call ended in None)
DashboardStopsWhenFailed(i, outs) ==
    /\ Running(i) /\ u_pc[i] = "dashboard"
    /\ \E out \in outs :
       /\ LET user == users.items[i]
          IN  u_reqs' = [u_reqs EXCEPT ![i] = Append(@,
                  Call("GET", StoreUrl("dashboard", user), base_headers(user), PyNone, out))]
       /\ IF out = PyNone
          THEN Finish(i, "returned")
          ELSE /\ u_pc' = [u_pc EXCEPT ![i] = "claimlist"]
               /\ UNCHANGED <<worker, u_claims>>
    /\ UNCHANGED <<m_pc, users, max_workers, nthreads, submitted, queue,
                   u_runs, u_log, r_vars>>

\* lines 68-88: the dashboard call; its result is only logged
Dashboard(i, outs) ==
    /\ Running(i) /\ u_pc[i] = "dashboard"
    /\ \E out \in outs :
         LET user == users.items[i]
         IN  u_reqs' = [u_reqs EXCEPT ![i] = Append(@,
                 Call("GET", StoreUrl("dashboard", user), base_headers(user), PyNone, out))]
    /\ u_pc' = [u_pc EXCEPT ![i] = "claimlist"]
    /\ UNCHANGED <<m_pc, users, max_workers, nthreads, submitted, queue, worker,
                   u_claims, u_runs, u_log, r_vars>>

\* lines 91-111: the claim-list call, the shape check and the filter; the
\* returns of lines 102 and 107 are preceded by a logger.error each, the
\* TypeError of lines 100 and 104 by nothing
ClaimList(i, outs) ==
    /\ Running(i) /\ u_pc[i] = "claimlist"
    /\ \E out \in outs :
       /\ LET user == users.items[i]
          IN  u_reqs' = [u_reqs EXCEPT ![i] = Append(@,
                  Call("GET", StoreUrl("claim-list", user), base_headers(user), PyNone, out))]
       /\ LET c == ClaimDataCheck(out)
          IN  IF c = "ok"
              THEN /\ u_pc' = [u_pc EXCEPT ![i] = "claims"]
                   /\ u_claims' = [u_claims EXCEPT ![i] =
                                      enabled_claims(out.m.data.m.attribute)]
                   /\ UNCHANGED worker
              ELSE Finish(i, IF c = "raise" THEN "raised" ELSE "returned")
       /\ u_log' = [u_log EXCEPT ![i] =
                        Logged(@, ClaimDataCheck(out) = "return", "error",
                               "Invalid claim data or attributes format")]
    /\ UNCHANGED <<m_pc, users, max_workers, nthreads, submitted, queue,
                   u_runs, r_vars>>

\* lines 113-116: a loop iteration that skips its claim
ClaimSkip(i) ==
    /\ Running(i) /\ u_pc[i] = "claims"
    /\ u_claims[i] # << >>
    /\ IsSkipped(Head(u_claims[i]))
    /\ u_claims' = [u_claims EXCEPT ![i] = Tail(@)]
    /\ u_log' = [u_log EXCEPT ![i] = Logged(@, TRUE, "warning", "Skipping claim")]
    /\ UNCHANGED <<m_pc, users, max_workers, nthreads, submitted, queue, worker,
                   u_pc, u_reqs, u_runs, r_vars>>

\* (ClaimPostRetriesFailed: a loop iteration that stays at its claim, to
\* post it again, when the call ended in None)
ClaimPostRetriesFailed(i, outs) ==
    /\ Running(i) /\ u_pc[i] = "claims"
    /\ u_claims[i] # << >>
    /\ ~IsSkipped(Head(u_claims[i]))
    /\ \E out \in outs :
       /\ LET user == users.items[i]
              claim == Head(u_claims[i])
          IN  u_reqs' = [u_reqs EXCEPT ![i] = Append(@,
                  Call("POST", StoreUrl("claim", user), base_headers(user),
                       PyDict([id |-> claim.m.id]), out))]
       /\ IF ClaimResponseRaises(out)
          THEN Finish(i, "raised")
          ELSE /\ u_claims' = [u_claims EXCEPT ![i] = IF out = PyNone THEN @ ELSE Tail(@)]
               /\ UNCHANGED <<worker, u_pc>>
       /\ u_log' = [u_log EXCEPT ![i] =
                        Logged(@, ~(Truthy(out) /\ IsDict(out)), "warning",
                               "Claim attempt failed")]
    /\ UNCHANGED <<m_pc, users, max_workers, nthreads, submitted, queue,
                   u_runs, r_vars>>

\* lines 118-134: a loop iteration that posts its claim and reads the
\* answer; line 134 logs a warning when line 130 is false
ClaimPost(i, outs) ==
    /\ Running(i) /\ u_pc[i] = "claims"
    /\ u_claims[i] # << >>
    /\ ~IsSkipped(Head(u_claims[i]))
    /\ \E out \in outs :
       /\ LET user == users.items[i]
              claim == Head(u_claims[i])
          IN  u_reqs' = [u_reqs EXCEPT ![i] = Append(@,
                  Call("POST", StoreUrl("claim", user), base_headers(user),
                       PyDict([id |-> claim.m.id]), out))]
       /\ IF ClaimResponseRaises(out)
          THEN Finish(i, "raised")
          ELSE /\ u_claims' = [u_claims EXCEPT ![i] = Tail(@)]
               /\ UNCHANGED <<worker, u_pc>>
       /\ u_log' = [u_log EXCEPT ![i] =
                        Logged(@, ~(Truthy(out) /\ IsDict(out)), "warning",
                               "Claim attempt failed")]
    /\ UNCHANGED <<m_pc, users, max_workers, nthreads, submitted, queue,
                   u_runs, r_vars>>

\* lines 136-142: the loop is over: the refresh call, the pause, the return
Refresh(i, outs) ==
    /\ Running(i) /\ u_pc[i] = "claims"
    /\ u_claims[i] = << >>
    /\ \E out \in outs :
         LET user == users.items[i]
         IN  u_reqs' = [u_reqs EXCEPT ![i] = Append(@,
                 Call("GET", RefreshUrl(user), NoHeaders, PyNone, out))]
    /\ Finish(i, "returned")
    /\ UNCHANGED <<m_pc, users, max_workers, nthreads, submitted, queue,
                   u_runs, u_log, r_vars>>

(***************************************************************************)
(* Inputs: what the servers may answer.                                    *)
(***************************************************************************)
\* the value of field k of the n-th account
FieldValue(n, k) ==
    JStr(<<k, n>>)
\* an account object with the fields keys
AccountDoc(n, keys) == JObj([k \in keys |-> FieldValue(n, k)])

\* Entries an account list may hold: complete, with an extra field, with one
\* required field missing, empty, and not an object at all.
AccountDocs ==
    { AccountDoc(1, required_fields), AccountDoc(1, required_fields \cup {"note"}),
      AccountDoc(1, {}), JStr("ann"), JNull }
    \cup { AccountDoc(1, required_fields \ {k}) : k \in required_fields }

\* Claim-list items: two eligible ones, a disabled one, enabled ones without
\* id or campaign_name, one whose enable is 1 and not true, one without
\* enable, and one that is no object.
Item(id, name, enable) ==
    JObj([id |-> JNum(id), campaign_name |-> JStr(name), enable |-> enable])
ItemDocs ==
    { Item(1, "A", JBool(TRUE)), Item(2, "B", JBool(FALSE)), Item(3, "C", JBool(TRUE)),
      JObj([campaign_name |-> JStr("D"), enable |-> JBool(TRUE)]),
      JObj([id |-> JNum(5), enable |-> JBool(TRUE)]),
      Item(6, "F", JNum(1)),
      JStr("G") }

\* all sequences over S of length at most n
SeqsUpTo(S, n) == UNION { [1..k -> S] : k \in 0..n }

ClaimListDoc(items) == JObj([data |-> JObj([attribute |-> JArr(items)])])

\* Bodies the claim-list endpoint may send with a 2xx status.
ClaimListBodies ==
    { NotJson("<html>"), Doc(JNull), Doc(JArr(<< >>)), Doc(JObj([error |-> JStr("denied")])),
      Doc(JObj([data |-> JNull])), Doc(JObj([data |-> JNum(7)])),
      Doc(JObj([data |-> JStr("attribute")])), Doc(JObj([data |-> JStr("none")])),
      Doc(JObj([data |-> JArr(<<JStr("attribute")>>)])), Doc(JObj([data |-> JArr(<< >>)])),
      Doc(JObj([data |-> JObj(<< >>)])),
      Doc(JObj([data |-> JObj([attribute |-> JNull])])),
      Doc(JObj([data |-> JObj([attribute |-> JObj(<< >>)])])) }
    \cup { Doc(ClaimListDoc(items)) : items \in SeqsUpTo(ItemDocs, MaxItems) }

\* Bodies the claim endpoint may send with a 2xx status.
ClaimBodies ==
    { NotJson("<html>"),
      Doc(JObj([data |-> JObj([attribute |-> JObj([message |-> JStr("claimed")])])])),
      Doc(JObj(<< >>)),
      Doc(JObj([data |-> JNull])),
      Doc(JObj([data |-> JObj([attribute |-> JNull])])) }

\* Bodies the dashboard and the refresh endpoint may send with a 2xx status.
OtherBodies == { NotJson("ok"), Doc(JObj([status |-> JStr("ok")])) }

\* Bodies the account-list endpoint may send with a 2xx status: no list, the
\* empty list, and every one-entry list.
AccountListBodies ==
    { NotJson("<html>"), Doc(JNull), Doc(JObj([error |-> JStr("denied")])), Doc(JArr(<< >>)) }
    \cup { Doc(JArr(<<a>>)) : a \in AccountDocs }

\* The pool specification's inputs: longer account lists, fewer shapes.
\* The n-th entry is complete, except that every third lacks userid and
\* every fifth is no object.
PoolAccountDoc(n) ==
    IF n % 5 = 0 THEN JStr("ann")
    ELSE IF n % 3 = 0 THEN AccountDoc(n, required_fields \ {"userid"})
    ELSE AccountDoc(n, required_fields)
PoolAccountListBodies ==
    { Doc(JArr([n \in 1..len |-> PoolAccountDoc(n)])) : len \in 1..MaxUsers }
PoolClaimListBodies ==
    { Doc(JObj([data |-> JNull])),
      Doc(ClaimListDoc(<<JObj([id |-> JNum(5), enable |-> JBool(TRUE)]),
                         Item(1, "A", JBool(TRUE))>>)) }
PoolClaimBodies == { Doc(JObj([data |-> JNull])) }

\* What make_request may return to each caller.
AccountListOuts == MakeRequestResults(AccountListBodies)
OtherOuts == MakeRequestResults(OtherBodies)
ClaimListOuts == MakeRequestResults(ClaimListBodies)
ClaimOuts == MakeRequestResults(ClaimBodies)
PoolAccountListOuts == MakeRequestResults(PoolAccountListBodies)
\* in the pool specification every dashboard and refresh call fails
PoolOtherOuts == MakeRequestResults({})
PoolClaimListOuts == MakeRequestResults(PoolClaimListBodies)
PoolClaimOuts == MakeRequestResults(PoolClaimBodies)

(***************************************************************************)
(* Specifications.                                                         *)
(***************************************************************************)
InitMain ==
    /\ m_pc = "fetch"
    /\ users = PyUnset
    /\ max_workers = 0
    /\ nthreads = 0
    /\ submitted = 0
    /\ queue = << >>
    /\ worker = << >>
    /\ u_pc = << >>
    /\ u_claims = << >>
    /\ u_reqs = << >>
    /\ u_runs = << >>
    /\ u_log = << >>

InitReqIdle ==
    /\ r_pc = "idle"
    /\ r_retries = 0
    /\ r_attempt = 0
    /\ r_trace = << >>
    /\ r_nsleep = 0
    /\ r_sleep_time = 0
    /\ r_sleep_after = -1
    /\ r_result = PyUnset

\* One run of the program: r_vars stay idle.
Init == InitMain /\ InitReqIdle

\* the steps of main, of the pool and of the workflows, for given answers
Step(accountLists, otherOuts, claimListOuts, claimOuts) ==
    \/ Fetch(accountLists)
    \/ \E spawn \in BOOLEAN : Submit(spawn)
    \/ Join
    \/ \E w \in DOMAIN worker : Take(w)
    \/ \E i \in Entries : Validate(i)
    \/ \E i \in Entries : Dashboard(i, otherOuts)
    \/ \E i \in Entries : ClaimList(i, claimListOuts)
    \/ \E i \in Entries : ClaimSkip(i)
    \/ \E i \in Entries : ClaimPost(i, claimOuts)
    \/ \E i \in Entries : Refresh(i, otherOuts)

\* One account at a time, every shape of answer.
Next == Step(AccountListOuts, OtherOuts, ClaimListOuts, ClaimOuts)
Spec == Init /\ [][Next]_vars

\* Up to MaxUsers accounts sharing the pool.
NextPool == Step(PoolAccountListOuts, PoolOtherOuts, PoolClaimListOuts, PoolClaimOuts)
SpecPool == Init /\ [][NextPool]_vars

\* One call of make_request, for every retries argument up to MaxRetries.
InitReq ==
    /\ InitMain
    /\ r_pc = "loop"
    /\ r_retries \in 0..MaxRetries
    /\ r_attempt = 0
    /\ r_trace = << >>
    /\ r_nsleep = 0
    /\ r_sleep_time = 0
    /\ r_sleep_after = -1
    /\ r_result = PyUnset
NextReq ==
    \/ \E resp \in HttpResults : Request(resp)
    \/ \E rnd \in RandomValues : Backoff(rnd)
    \/ NoBackoff
    \/ Exhausted
SpecReq == InitReq /\ [][NextReq]_vars

(***************************************************************************)
(* Properties of make_request (specification SpecReq).                     *)
(***************************************************************************)
\* the attempt ended in a transport error or a status outside [200, 300)
AttemptFailed(resp) == resp.exc \/ resp.status < 200 \/ resp.status >= 300
AllAttemptsFailed == \A k \in 1..Len(r_trace) : AttemptFailed(r_trace[k])
LastAttempt == r_trace[Len(r_trace)]

\* C1: when every attempt ends in a transport error or a non-2xx status
\* (4xx and 5xx alike), make_request with retries >= 1 issues exactly
\* retries HTTP requests, never more, and then returns None.
C1_ExactlyMaxAttempts ==
    /\ Len(r_trace) <= r_retries
    /\ (r_retries >= 1 /\ r_pc = "returned" /\ AllAttemptsFailed)
          => (Len(r_trace) = r_retries /\ r_result = PyNone)

\* a call with three attempts that failed by a 404, a 500 and an exception
C1_Witness ==
    /\ r_pc = "returned" /\ r_retries = 3 /\ Len(r_trace) = 3 /\ AllAttemptsFailed
    /\ \E k \in 1..3 : ~r_trace[k].exc /\ r_trace[k].status = 404
    /\ \E k \in 1..3 : ~r_trace[k].exc /\ r_trace[k].status = 500
    /\ \E k \in 1..3 : r_trace[k].exc
    /\ r_result = PyNone

\* C2: the first attempt that receives a 2xx response ends the call at
\* that attempt: it is the last HTTP request, the call has returned, the
\* only sleeps are those after the earlier failed attempts, and a body that
\* is not JSON is returned as its text, whatever the attempt index.
C2_SuccessEndsDispatch ==
    /\ \A k \in 1..(Len(r_trace) - 1) : AttemptFailed(r_trace[k])
    /\ (Len(r_trace) > 0 /\ ~AttemptFailed(LastAttempt))
          => /\ r_pc = "returned"
             /\ r_attempt = Len(r_trace) - 1
             /\ r_nsleep = Len(r_trace) - 1
             /\ ~LastAttempt.body.valid => r_result = PyStr(LastAttempt.body.text)

\* a 2xx response with a body that is not JSON, at the second attempt
C2_Witness ==
    /\ r_pc = "returned" /\ Len(r_trace) = 2
    /\ ~AttemptFailed(LastAttempt) /\ ~LastAttempt.body.valid
    /\ r_result = PyStr("<html>")

\* the sleeps made so far are exactly those after the failed attempts that
\* had another attempt after them, and the last one followed such an attempt
SleepsWhenAttemptsRemain ==
    /\ r_nsleep = Cardinality({k \in 0..(r_attempt - 1) : k < r_retries - 1})
    /\ r_nsleep > 0 => (r_sleep_after = r_nsleep - 1 /\ r_sleep_after < r_retries - 1)
    /\ (r_pc = "returned" /\ r_result = PyNone /\ AllAttemptsFailed /\ Len(r_trace) >= 1)
          => r_nsleep = Len(r_trace) - 1

\* C3 as claimed: a sleep follows a failed attempt if and only if more
\* attempts remain, k failed attempts ending in None sleep k-1 times, and the
\* delay after attempt a lies in the half-open interval [2^a, 2^a + 1).
C3_DelayHalfOpen ==
    /\ SleepsWhenAttemptsRemain
    /\ r_nsleep > 0 =>
          /\ (2 ^ r_sleep_after) * FloatUnit <= r_sleep_time
          /\ r_sleep_time < (2 ^ r_sleep_after + 1) * FloatUnit

\* C3 as amended: the same, with the delay in the closed interval
\* [2^a, 2^a + 1]: the float sum 2**a + uniform(0, 1) rounds up to 2^a + 1
\* when random() returns its largest value.
C3_DelayClosed ==
    /\ SleepsWhenAttemptsRemain
    /\ r_nsleep > 0 =>
          /\ (2 ^ r_sleep_after) * FloatUnit <= r_sleep_time
          /\ r_sleep_time <= (2 ^ r_sleep_after + 1) * FloatUnit

\* three failed attempts, two sleeps, the second of 2^1 + 1 seconds
C3_Witness ==
    /\ r_pc = "returned" /\ r_retries = 3 /\ r_result = PyNone /\ Len(r_trace) = 3
    /\ r_nsleep = 2 /\ r_sleep_after = 1
    /\ r_sleep_time = 3 * FloatUnit

\* what a call returns is among the values MakeRequestResults predicts
ReturnIsPossible ==
    r_pc = "returned" => r_result \in MakeRequestResults(ReqBodies)

(***************************************************************************)
(* Properties of process_user (specification Spec: one account, every      *)
(* shape of answer).  They are stated on the log u_reqs of the calls made, *)
(* with predicates written from the claims, not from the model.            *)
(***************************************************************************)
Started(i) == u_pc[i] \notin {"pending", "queued"}
Ended(i) == u_pc[i] \in {"returned", "raised"}
Executing(i) == Started(i) /\ ~Ended(i)

\* the account lacks at least one required field (or is no object at all)
LacksRequiredField(user) ==
    \/ ~IsDict(user)
    \/ \E k \in {"username", "phone", "userid", "access"} : k \notin DOMAIN user.m

\* C4: for an account that lacks a required field process_user makes no
\* network call at all and ends; the account is started at most once and
\* never gets past the validation.
C4_InvalidAccountNoCalls ==
    \A i \in Entries :
        LacksRequiredField(users.items[i]) =>
            /\ u_reqs[i] = << >>
            /\ u_runs[i] <= 1
            /\ u_pc[i] \in {"pending", "queued", "validate", "returned", "raised"}

\* an account that lacks only userid was run to its end without any call
C4_Witness ==
    /\ m_pc = "returned" /\ IsList(users)
    /\ \E i \in Entries :
          /\ IsDict(users.items[i])
          /\ DOMAIN users.items[i].m = {"username", "phone", "access"}
          /\ u_pc[i] = "returned" /\ u_runs[i] = 1 /\ u_reqs[i] = << >>

\* the calls of entry i to the given endpoint, in order
RECURSIVE CallsTo(_, _)
CallsTo(reqs, endpoint) ==
    IF reqs = << >> THEN << >>
    ELSE IF Head(reqs).url.endpoint = endpoint
         THEN <<Head(reqs)>> \o CallsTo(Tail(reqs), endpoint)
         ELSE CallsTo(Tail(reqs), endpoint)

\* the claim-list outcome is a JSON object holding data.attribute, a sequence
ValidClaimList(out) ==
    /\ IsDict(out) /\ "data" \in DOMAIN out.m
    /\ IsDict(out.m.data) /\ "attribute" \in DOMAIN out.m.data.m
    /\ IsList(out.m.data.m.attribute)

\* the claim-list call is the second call of a workflow
HasClaimList(i) == Len(u_reqs[i]) >= 2
ClaimListOut(i) == u_reqs[i][2].out

\* C5: when the claim-list outcome is no JSON object, or lacks data or
\* data.attribute, or data.attribute is no sequence, process_user ends
\* with the claim-list call as its last call: no claim POST, no refresh.
C5_InvalidClaimListEnds ==
    \A i \in Entries :
        (HasClaimList(i) /\ ~ValidClaimList(ClaimListOut(i))) =>
            /\ Len(u_reqs[i]) = 2
            /\ u_reqs[i][2].url.endpoint = "claim-list"
            /\ Ended(i)

\* a claim list that is valid JSON without data ended the workflow there
C5_Witness ==
    /\ m_pc = "returned" /\ IsList(users)
    /\ \E i \in Entries :
          /\ HasClaimList(i)
          /\ ClaimListOut(i) = PyDict([error |-> PyStr("denied")])
          /\ u_pc[i] = "returned" /\ Len(u_reqs[i]) = 2

\* the item is enabled (enable is true) and carries id and campaign_name
Eligible(item) ==
    /\ IsDict(item)
    /\ "enable" \in DOMAIN item.m /\ item.m.enable = PyBool(TRUE)
    /\ "id" \in DOMAIN item.m /\ "campaign_name" \in DOMAIN item.m

\* the bodies {id: item's id} of the eligible items, in list order
RECURSIVE ExpectedClaimBodies(_)
ExpectedClaimBodies(items) ==
    IF items = << >> THEN << >>
    ELSE IF Eligible(Head(items))
         THEN <<PyDict([id |-> Head(items).m.id])>> \o ExpectedClaimBodies(Tail(items))
         ELSE ExpectedClaimBodies(Tail(items))

\* the bodies of the claim POSTs entry i has made, in order
ClaimBodiesPosted(i) ==
    LET posts == CallsTo(u_reqs[i], "claim")
    IN  [k \in 1..Len(posts) |-> posts[k].data]

IsPrefix(a, b) == Len(a) <= Len(b) /\ a = SubSeq(b, 1, Len(a))

\* C6: given a valid claim list, the claim POSTs are exactly those of the
\* eligible items, one each, with body {id: item's id}, in list order: at
\* every moment a prefix of them, and all of them once the workflow ended.
C6_ClaimsExactlyEligible ==
    \A i \in Entries :
        (HasClaimList(i) /\ ValidClaimList(ClaimListOut(i))) =>
            LET expected == ExpectedClaimBodies(ClaimListOut(i).m.data.m.attribute.items)
            IN  /\ IsPrefix(ClaimBodiesPosted(i), expected)
                /\ \A k \in 1..Len(u_reqs[i]) :
                      u_reqs[i][k].url.endpoint = "claim" => u_reqs[i][k].method = "POST"
                /\ Ended(i) => ClaimBodiesPosted(i) = expected

\* C7: when the claim POST of one eligible item ended in Failed (None), the
\* workflow, once ended, has posted the claim of every later eligible item
\* and its last call is the refresh call.
C7_FailedClaimDoesNotStop ==
    \A i \in Entries :
        (/\ HasClaimList(i) /\ ValidClaimList(ClaimListOut(i))
         /\ Ended(i)
         /\ \E k \in 1..Len(u_reqs[i]) :
               u_reqs[i][k].url.endpoint = "claim" /\ u_reqs[i][k].out = PyNone) =>
            /\ ClaimBodiesPosted(i) =
                  ExpectedClaimBodies(ClaimListOut(i).m.data.m.attribute.items)
            /\ u_reqs[i][Len(u_reqs[i])].url.endpoint = "refresh"

(***************************************************************************)
(* Properties of main and the pool (specification SpecPool: up to MaxUsers *)
(* accounts).                                                              *)
(***************************************************************************)
ExecutingEntries == {i \in Entries : Executing(i)}

\* C8: with N >= 1 accounts, never more than min(4, N) process_user calls
\* execute at once, and when main has returned all N have ended.
C8_BoundedConcurrency ==
    IsList(users) =>
        LET n == Len(users.items)
        IN  /\ Cardinality(ExecutingEntries) <= (IF n < 4 THEN n ELSE 4)
            /\ m_pc = "returned" => \A i \in 1..n : Ended(i)

\* five accounts: four execute at once while the fifth waits in the queue
C8_Witness ==
    /\ IsList(users) /\ Len(users.items) = 5
    /\ Cardinality(ExecutingEntries) = 4
    /\ \E i \in Entries : u_pc[i] = "queued"

\* C9: every entry of the account list is handed to exactly one worker,
\* once: no entry is started twice, no two threads hold the same entry, a
\* thread holds an entry exactly while its process_user executes, and when
\* main has returned every entry has been started once and has ended.
C9_EachEntryOnce ==
    \A i \in Entries :
        /\ u_runs[i] <= 1
        /\ Started(i) <=> u_runs[i] = 1
        /\ Cardinality({w \in DOMAIN worker : worker[w] = i}) <= 1
        /\ Executing(i) <=> (\E w \in DOMAIN worker : worker[w] = i)
        /\ m_pc = "returned" => (u_runs[i] = 1 /\ Ended(i))

\* five accounts, all started once and ended, main returned
C9_Witness ==
    /\ m_pc = "returned" /\ IsList(users) /\ Len(users.items) = 5
    /\ \A i \in Entries : u_runs[i] = 1 /\ Ended(i)

\* reading the claim answer raises: data, or data.attribute, is present and
\* is no object
ClaimAnswerRaises(out) ==
    /\ IsDict(out) /\ "data" \in DOMAIN out.m
    /\ \/ ~IsDict(out.m.data)
       \/ "attribute" \in DOMAIN out.m.data.m /\ ~IsDict(out.m.data.m.attribute)

\* reqs and how ("returned" or "raised") are what process_user(user) does
\* when it runs to its end alone, given the answers recorded in reqs
EndedAsAlone(user, reqs, how) ==
    IF ~IsDict(user) THEN reqs = << >> /\ how = "raised"
    ELSE IF LacksRequiredField(user) THEN reqs = << >> /\ how = "returned"
    ELSE /\ Len(reqs) >= 2
         /\ reqs[1].url.endpoint = "dashboard"
         /\ reqs[2].url.endpoint = "claim-list"
         /\ IF ~ValidClaimList(reqs[2].out) THEN Len(reqs) = 2
            ELSE LET expected == ExpectedClaimBodies(reqs[2].out.m.data.m.attribute.items)
                     posts == CallsTo(reqs, "claim")
                     bodies == [k \in 1..Len(posts) |-> posts[k].data]
                 IN  IF \E k \in 1..Len(posts) : ClaimAnswerRaises(posts[k].out)
                     THEN /\ how = "raised"
                          /\ Len(reqs) = 2 + Len(posts)
                          /\ \A k \in 1..(Len(posts) - 1) : ~ClaimAnswerRaises(posts[k].out)
                          /\ IsPrefix(bodies, expected)
                     ELSE /\ how = "returned"
                          /\ Len(reqs) = 3 + Len(posts)
                          /\ reqs[Len(reqs)].url.endpoint = "refresh"
                          /\ bodies = expected

\* C10: failures stay inside their account.  However an account's
\* process_user ends (by return, early or not, or by an exception), every
\* entry that has ended has made exactly the calls it makes when run alone;
\* while entries remain the pool can go on (an entry executes, or a started
\* thread is free to take the next one); and once all have ended the
\* threads are idle, so that main returns, which it does only then.
C10_FailuresStayInAccount ==
    IsList(users) =>
        /\ \A i \in Entries : Ended(i) => EndedAsAlone(users.items[i], u_reqs[i], u_pc[i])
        /\ (m_pc = "join" /\ \E i \in Entries : ~Ended(i)) =>
              \/ \E i \in Entries : Executing(i) /\ Running(i)
              \/ queue # << >> /\ \E w \in DOMAIN worker : w <= nthreads /\ worker[w] = 0
        /\ (m_pc = "join" /\ \A i \in Entries : Ended(i)) =>
              (queue = << >> /\ \A w \in DOMAIN worker : worker[w] = 0)
        /\ m_pc = "returned" => \A i \in Entries : Ended(i)

\* five accounts: the first ended by an exception after its claim POST,
\* the third returned early, the fifth raised at once, and the second
\* and fourth still made all their calls up to the refresh; main returned
C10_Witness ==
    /\ m_pc = "returned" /\ IsList(users) /\ Len(users.items) = 5
    /\ u_pc[1] = "raised" /\ Len(u_reqs[1]) = 3
    /\ u_pc[3] = "returned" /\ u_reqs[3] = << >>
    /\ u_pc[5] = "raised" /\ u_reqs[5] = << >>
    /\ \A i \in {2, 4} :
          /\ u_pc[i] = "returned" /\ Len(u_reqs[i]) = 4
          /\ u_reqs[i][4].url.endpoint = "refresh"
          /\ \A k \in {1, 3, 4} : u_reqs[i][k].out = PyNone

(***************************************************************************)
(* Properties of main (specification Spec: the account list is no list,    *)
(* the empty list, or a list of one entry).                                *)
(***************************************************************************)
\* C11: whenever the fetched account list is a JSON sequence, of any length
\* including zero, main does not end by an exception: it returns normally,
\* and only once every entry's process_user has ended.
C11_ListRunEndsNormally ==
    IsList(users) =>
        /\ m_pc # "raised"
        /\ m_pc = "returned" => \A i \in Entries : Ended(i)

\* the fetch has been made
Fetched == m_pc # "fetch"

\* C12: when the outcome of the account-list fetch is no JSON sequence
\* (None, a text, or a JSON object or scalar), main has returned at once:
\* no pool, no thread, no process_user started, no request of any workflow.
C12_NoListNoWorkflow ==
    (Fetched /\ ~IsList(users)) =>
        /\ m_pc = "returned"
        /\ nthreads = 0 /\ submitted = 0 /\ queue = << >>
        /\ DOMAIN worker = {}
        /\ DOMAIN u_pc = {} /\ DOMAIN u_runs = {} /\ DOMAIN u_reqs = {}

\* the account-list endpoint answered with a JSON object and main returned
C12_Witness ==
    /\ m_pc = "returned"
    /\ users = PyDict([error |-> PyStr("denied")])
    /\ DOMAIN u_reqs = {}

(***************************************************************************)
(* Further properties of process_user (specification Spec).                *)
(***************************************************************************)
\* entry i has made at least one claim POST
HasPosted(i) == \E k \in 1..Len(u_reqs[i]) : u_reqs[i][k].url.endpoint = "claim"

\* C13: whatever the claim endpoint answered to a claim POST (None, a text,
\* or JSON of any shape), the workflow goes on: while it executes it is
\* still in its claim loop, and once it has ended it ended by return, has
\* posted the claim of every eligible item and made the refresh call last.
C13_ClaimAnswerOnlyReported ==
    \A i \in Entries :
        HasPosted(i) =>
            /\ u_pc[i] \in {"claims", "returned"}
            /\ u_pc[i] = "returned" =>
                  /\ ClaimBodiesPosted(i) =
                        ExpectedClaimBodies(ClaimListOut(i).m.data.m.attribute.items)
                  /\ u_reqs[i][Len(u_reqs[i])].url.endpoint = "refresh"

\* the place of a call in the order dashboard, claim list, claims, refresh
StepRank(call) ==
    CASE call.url.endpoint = "dashboard"  -> 1
      [] call.url.endpoint = "claim-list" -> 2
      [] call.url.endpoint = "claim"      -> 3
      [] call.url.endpoint = "refresh"    -> 4

\* the calls of entry i are in step order; only claim POSTs repeat, and they
\* follow the order of the eligible items in the claim list
CallsInStepOrder(i) ==
    /\ \A k \in 1..(Len(u_reqs[i]) - 1) :
          \/ StepRank(u_reqs[i][k]) < StepRank(u_reqs[i][k + 1])
          \/ StepRank(u_reqs[i][k]) = 3 /\ StepRank(u_reqs[i][k + 1]) = 3
    /\ HasPosted(i) =>
          IsPrefix(ClaimBodiesPosted(i),
                   ExpectedClaimBodies(ClaimListOut(i).m.data.m.attribute.items))

\* a step changes the calls of entry i only by adding one call, whose
\* answer has come back, at the end, made by the one thread that executes
\* process_user for i
OneCallAtATime(i) ==
    u_reqs'[i] # u_reqs[i] =>
        /\ Cardinality({w \in DOMAIN worker : worker[w] = i}) = 1
        /\ Len(u_reqs'[i]) = Len(u_reqs[i]) + 1
        /\ SubSeq(u_reqs'[i], 1, Len(u_reqs[i])) = u_reqs[i]
        /\ u_reqs'[i][Len(u_reqs'[i])].out # PyUnset

\* C14: within one account the network steps are totally ordered and never
\* overlap: the dashboard call before the claim-list call, that before the
\* first claim POST, the POST of an item before the POST of the next, every
\* POST before the refresh call; one thread at most executes the account's
\* process_user, and each of its calls has returned before the next is made.
C14_StepsOrderedNoOverlap ==
    /\ [](\A i \in Entries :
             /\ CallsInStepOrder(i)
             /\ u_runs[i] <= 1
             /\ Cardinality({w \in DOMAIN worker : worker[w] = i}) <= 1)
    /\ [][\A i \in Entries : OneCallAtATime(i)]_vars

\* a workflow that made all four kinds of call, with the claims of items 1
\* and 3 posted in that order
C14_Witness ==
    \E i \in Entries :
        /\ u_pc[i] = "returned" /\ Len(u_reqs[i]) = 5
        /\ [k \in 1..5 |-> u_reqs[i][k].url.endpoint] =
              <<"dashboard", "claim-list", "claim", "claim", "refresh">>
        /\ ClaimBodiesPosted(i) = <<PyDict([id |-> PyInt(1)]), PyDict([id |-> PyInt(3)])>>

\* the calls reqs with the outcome of the first one, the dashboard call,
\* replaced by out
WithDashboardOutcome(reqs, out) == [reqs EXCEPT ![1].out = out]

\* where process_user stands after the calls reqs, read from every call but
\* the dashboard call: about to fetch the claim list, in its claim loop, or
\* ended
PositionAfter(reqs) ==
    IF Len(reqs) = 1 THEN {"claimlist"}
    ELSE IF ~ValidClaimList(reqs[2].out) THEN {"returned", "raised"}
    ELSE IF reqs[Len(reqs)].url.endpoint = "refresh" THEN {"returned"}
    ELSE IF /\ reqs[Len(reqs)].url.endpoint = "claim"
            /\ ClaimAnswerRaises(reqs[Len(reqs)].out) THEN {"raised"}
    ELSE {"claims"}

\* the step in which entry i makes its first call leaves it about to fetch
\* the claim list, and changes nothing else of the entry and of the pool
FirstCallGoesOn(i) ==
    (u_reqs[i] = << >> /\ u_reqs'[i] # << >>) =>
        /\ u_pc'[i] = "claimlist"
        /\ u_claims'[i] = u_claims[i] /\ u_log'[i] = u_log[i]
        /\ worker' = worker /\ queue' = queue /\ m_pc' = m_pc

\* C15: for a valid account the outcome of the dashboard call changes
\* nothing of what follows.  The dashboard call is the first call; the
\* step that makes it, whatever it returned, leaves the workflow at the
\* claim-list call, which is the second call; and where the workflow
\* stands, and how it ended, is what the other calls' outcomes decide: the
\* same with any other dashboard outcome in place of the one received.
C15_DashboardOutcomeIgnored ==
    /\ [](\A i \in Entries :
             Len(u_reqs[i]) >= 1 =>
                 /\ u_reqs[i][1].url.endpoint = "dashboard"
                 /\ Len(u_reqs[i]) >= 2 => u_reqs[i][2].url.endpoint = "claim-list"
                 /\ \A out \in OtherOuts :
                       u_pc[i] \in PositionAfter(WithDashboardOutcome(u_reqs[i], out))
                 /\ Ended(i) =>
                       \E out \in OtherOuts \ {u_reqs[i][1].out} :
                           EndedAsAlone(users.items[i],
                                        WithDashboardOutcome(u_reqs[i], out), u_pc[i]))
    /\ [][\A i \in Entries : FirstCallGoesOn(i)]_vars

\* a workflow whose dashboard call ended in None and that still fetched the
\* claim list, posted a claim and made the refresh call
C15_Witness ==
    \E i \in Entries :
        /\ u_pc[i] = "returned" /\ Len(u_reqs[i]) = 4
        /\ u_reqs[i][1].url.endpoint = "dashboard" /\ u_reqs[i][1].out = PyNone
        /\ u_reqs[i][3].url.endpoint = "claim"
        /\ u_reqs[i][4].url.endpoint = "refresh"

(***************************************************************************)
(* A further property of make_request (specification SpecReq).             *)
(***************************************************************************)
\* C16: make_request returns what its caller reads as Failed (None) only
\* when every one of its retries attempts failed, and the three outcomes
\* stay apart: after a 2xx response the result is never None, and after a
\* 2xx response with a valid JSON body it is never a str, which is what a
\* body that is no JSON comes back as.
C16_OutcomesDistinguishable ==
    r_pc = "returned" =>
        /\ r_result = PyNone => (AllAttemptsFailed /\ Len(r_trace) = r_retries)
        /\ (Len(r_trace) > 0 /\ ~AttemptFailed(LastAttempt)) =>
              /\ r_result # PyNone
              /\ LastAttempt.body.valid => r_result.t # "str"

(***************************************************************************)
(* Logging and the number of calls (specification Spec).                   *)
(***************************************************************************)
\* the last call of entry i is the refresh call
HasRefreshed(i) ==
    Len(u_reqs[i]) > 0 /\ u_reqs[i][Len(u_reqs[i])].url.endpoint = "refresh"

\* C17: a process_user that has ended without making the refresh call has
\* logged at least one error or warning for its account, and an exception
\* that left a process_user is not discarded: main does not return normally
\* after it.  (make_request logs errors and warnings of its own only for a
\* failed attempt or a body that is no JSON; each of its results is also
\* returned after a single 2xx attempt with a JSON body, so the events
\* counted are those of process_user.)
C17_NoSilentEnd ==
    \A i \in Entries :
        /\ (Ended(i) /\ ~HasRefreshed(i)) => u_log[i] # << >>
        /\ u_pc[i] = "raised" => m_pc # "returned"

\* the number of eligible items of entry i's claim list (0 without a valid one)
EligibleCount(i) ==
    IF HasClaimList(i) /\ ValidClaimList(ClaimListOut(i))
    THEN Len(ExpectedClaimBodies(ClaimListOut(i).m.data.m.attribute.items))
    ELSE 0

\* the most HTTP requests the calls reqs can have issued: a call of
\* make_request issues at most as many as its retries argument
RECURSIVE MaxHttpRequests(_)
MaxHttpRequests(reqs) ==
    IF reqs = << >> THEN 0 ELSE Head(reqs).retries + MaxHttpRequests(Tail(reqs))

\* the number of calls among reqs made to the endpoint
CallCount(reqs, endpoint) ==
    Cardinality({k \in 1..Len(reqs) : reqs[k].url.endpoint = endpoint})

\* a step of the program makes at most one call of make_request for entry
\* i, and a claim POST only while items remain in the claim loop
StepMakesOneCallAtMost(i) ==
    /\ Len(u_reqs'[i]) <= Len(u_reqs[i]) + 1
    /\ (Len(u_reqs'[i]) > Len(u_reqs[i])
           /\ u_reqs'[i][Len(u_reqs'[i])].url.endpoint = "claim") =>
          (u_claims[i] # << >> /\ Len(u_claims'[i]) < Len(u_claims[i]))

\* C18: no step is retried by process_user: per account at most one call of
\* make_request for the dashboard, one for the claim list, one per eligible
\* item (in list order) and one for the refresh, each with the default
\* ceiling of 3 attempts, so that an account with c eligible items causes
\* at most 3 * (3 + c) HTTP requests.
C18_NoWorkflowRetry ==
    /\ [](\A i \in Entries :
             LET c == EligibleCount(i)
             IN  /\ CallCount(u_reqs[i], "dashboard") <= 1
                 /\ CallCount(u_reqs[i], "claim-list") <= 1
                 /\ CallCount(u_reqs[i], "refresh") <= 1
                 /\ CallCount(u_reqs[i], "claim") <= c
                 /\ HasPosted(i) =>
                       IsPrefix(ClaimBodiesPosted(i),
                           ExpectedClaimBodies(ClaimListOut(i).m.data.m.attribute.items))
                 /\ \A k \in 1..Len(u_reqs[i]) : u_reqs[i][k].retries = 3
                 /\ MaxHttpRequests(u_reqs[i]) <= 3 * (3 + c))
    /\ [][\A i \in Entries : StepMakesOneCallAtMost(i)]_vars

\* three eligible items and every call ended in None: six calls, which is
\* 18 = 3 * (3 + 3) HTTP requests at most
C18_Witness ==
    \E i \in Entries :
        /\ u_pc[i] = "returned" /\ EligibleCount(i) = 3
        /\ Len(u_reqs[i]) = 6 /\ MaxHttpRequests(u_reqs[i]) = 18
        /\ \A k \in 1..6 : u_reqs[i][k].out = PyNone \/ k = 2

(***************************************************************************)
(* Isolation of the accounts (specification SpecPool: concurrent           *)
(* workflows; the n-th account's fields are tagged with n).                *)
(***************************************************************************)
\* the entries of the list that are objects carrying the field k
EntriesWith(k) == {j \in Entries : IsDict(users.items[j]) /\ k \in DOMAIN users.items[j].m}

\* value v is the field k of entry i and of no other entry
OwnField(i, k, v) ==
    /\ v = users.items[i].m[k]
    /\ \A j \in EntriesWith(k) \ {i} : v # users.items[j].m[k]

\* C19: under every interleaving each request of an account is built from
\* that account's own fields only.  The dashboard, claim-list and claim
\* requests carry its bearer token, its phone and its userid, none of them
\* another account's; the refresh request carries its phone, no userid and
\* no Authorization header.
C19_RequestsCarryOwnFields ==
    \A i \in Entries : \A k \in 1..Len(u_reqs[i]) :
        LET call == u_reqs[i][k]
        IN  IF call.url.endpoint \in {"dashboard", "claim-list", "claim"}
            THEN /\ DOMAIN call.headers = {"Authorization"}
                 /\ call.headers.Authorization[1] = "Bearer"
                 /\ OwnField(i, "access", call.headers.Authorization[2])
                 /\ OwnField(i, "phone", call.url.msisdn)
                 /\ OwnField(i, "userid", call.url.userid)
            ELSE /\ call.url.endpoint = "refresh"
                 /\ OwnField(i, "phone", call.url.msisdn)
                 /\ call.url.userid = PyNone
                 /\ call.headers.Authorization = <<"absent">>

\* accounts 1 and 2 execute at once, the first has made its dashboard call
\* only, the second has posted a claim, and account 4 has made its refresh
\* call
C19_Witness ==
    /\ IsList(users) /\ Len(users.items) >= 4
    /\ Executing(1) /\ Len(u_reqs[1]) = 1
    /\ Executing(2) /\ Len(u_reqs[2]) = 3
    /\ HasRefreshed(4)

====
